---- MODULE Spec2Model ----
(***************************************************************************)
(* Dataset Manager API (fastapi-backend): the /validate-sql classifier of  *)
(* app.py, next to the connection cache of routes.py and the public        *)
(* dataset registry of services.py.                                        *)
(*                                                                         *)
(* A query text is a sequence of one-character strings, so that the        *)
(* regular expressions of validate_sql are matched character by character. *)
(***************************************************************************)
EXTENDS Integers, Sequences, FiniteSets, TLC

VARIABLES
    query,                \* the query parameter of the /validate-sql requests
    responses,            \* what the validate_sql calls returned, in order
    calls_left,           \* the /validate-sql requests still to be sent
    fault,                \* the exception raised inside validate_sql's try block
    active_connections,   \* routes.py: connection key -> connection params
    public_datasets_file, \* services.py: content of public_datasets.json
    exchange,             \* the last /connect or /public-datasets request and its answer
    added,                \* history: id -> dataset last added, for the ids not removed since
    writers               \* server processes inside add_ / remove_public_dataset

vars == <<query, responses, calls_left, fault, active_connections, public_datasets_file,
          exchange, added, writers>>

(***************************************************************************)
(* Bounds of the model.                                                    *)
(***************************************************************************)
\* a request text is one head followed by at most MaxTail tail fragments
MaxTail == 2

\* the number of /validate-sql requests sent with the same text, when the
\* other handlers run between them
MaxCalls == 2

(***************************************************************************)
(* Characters and the str / re primitives the handler uses.                *)
(***************************************************************************)
NL == "\n"

\* the characters \s matches (str.isspace), among those of the model
Whitespace == {" ", NL}

LowerLetters ==
    {"a","b","c","d","e","f","g","h","i","j","k","l","m",
     "n","o","p","q","r","s","t","u","v","w","x","y","z"}

\* str.lower() on the upper-case letters of the model
ToLower ==
    ("A" :> "a") @@ ("B" :> "b") @@ ("C" :> "c") @@ ("D" :> "d") @@
    ("E" :> "e") @@ ("F" :> "f") @@ ("G" :> "g") @@ ("H" :> "h") @@
    ("I" :> "i") @@ ("J" :> "j") @@ ("K" :> "k") @@ ("L" :> "l") @@
    ("M" :> "m") @@ ("N" :> "n") @@ ("O" :> "o") @@ ("P" :> "p") @@
    ("Q" :> "q") @@ ("R" :> "r") @@ ("S" :> "s") @@ ("T" :> "t") @@
    ("U" :> "u") @@ ("V" :> "v") @@ ("W" :> "w") @@ ("X" :> "x") @@
    ("Y" :> "y") @@ ("Z" :> "z")

Digits == {"0","1","2","3","4","5","6","7","8","9"}

\* the characters \w matches
WordChars == LowerLetters \cup DOMAIN ToLower \cup Digits \cup {"_"}

\* the characters of the model's texts
Alphabet ==
    WordChars \cup Whitespace \cup
    {"(", ")", ";", ",", "'", "*", "=", "!", "<", ">"}

IsSpace(c) == c \in Whitespace

IsWord(c) == c \in WordChars

\* query.lower()
lower(s) == [i \in 1..Len(s) |-> IF s[i] \in DOMAIN ToLower THEN ToLower[s[i]] ELSE s[i]]

\* the end of the greedy \s* that starts at i: the first position >= i that
\* holds no whitespace (Len(s) + 1 when the whitespace runs to the end)
RECURSIVE SpacesEnd(_, _)
SpacesEnd(s, i) ==
    IF i <= Len(s) /\ IsSpace(s[i]) THEN SpacesEnd(s, i + 1) ELSE i

\* the start of the whitespace run that ends at i (i + 1 when s[i] is none)
RECURSIVE SpacesStart(_, _)
SpacesStart(s, i) ==
    IF i >= 1 /\ IsSpace(s[i]) THEN SpacesStart(s, i - 1) ELSE i + 1

\* str.strip()
strip(s) ==
    LET a == SpacesEnd(s, 1)
        b == SpacesStart(s, Len(s)) - 1
    IN  IF a > b THEN <<>> ELSE SubSeq(s, a, b)

\* the literal lit stands at position i of s
LitAt(s, i, lit) ==
    /\ i >= 1
    /\ i + Len(lit) - 1 <= Len(s)
    /\ \A k \in 1..Len(lit) : s[i + k - 1] = lit[k]

\* str.startswith
startswith(s, lit) == LitAt(s, 1, lit)

\* str.count of one character
count(s, c) == Cardinality({i \in 1..Len(s) : s[i] = c})

\* no newline in s[a..b]: what . matches without re.DOTALL
NoNewline(s, a, b) == \A k \in a..b : s[k] # NL

kw_select == <<"s","e","l","e","c","t">>
kw_from == <<"f","r","o","m">>
kw_where == <<"w","h","e","r","e">>
kw_and == <<"a","n","d">>
kw_or == <<"o","r">>
kw_is == <<"i","s">>
kw_not == <<"n","o","t">>
kw_null == <<"n","u","l","l">>
kw_in == <<"i","n">>

\* re.search(k1 \s+ k2, s) for two literals, k2 starting with no whitespace
SearchKwSpKw(s, k1, k2) ==
    \E i \in 1..Len(s) :
        /\ LitAt(s, i, k1)
        /\ i + Len(k1) <= Len(s)
        /\ IsSpace(s[i + Len(k1)])
        /\ LitAt(s, SpacesEnd(s, i + Len(k1)), k2)

(***************************************************************************)
(* validate_sql: the rejection checks.                                     *)
(***************************************************************************)
MinQueryLen == 5

\* re.search(r"select\s+.+\s+from\s+.+", s, flags): . matches a newline
\* only under re.DOTALL
SearchSelectFromFlags(s, dotall) ==
    \E i \in 1..Len(s) :
        /\ LitAt(s, i, kw_select)
        /\ \E c \in (i + 9)..Len(s) :
              /\ LitAt(s, c, kw_from)
              \* s[i+6 .. c-1] is \s+ .+ \s+
              /\ \E a \in (i + 7)..(c - 2) :
                    /\ \A k \in (i + 6)..(a - 1) : IsSpace(s[k])
                    /\ \E b \in (a + 1)..(c - 1) :
                          /\ dotall \/ NoNewline(s, a, b - 1)
                          /\ \A k \in b..(c - 1) : IsSpace(s[k])
              \* s[c+4 ..] starts with \s+ .
              /\ \E d \in (c + 5)..Len(s) :
                    /\ \A k \in (c + 4)..(d - 1) : IsSpace(s[k])
                    /\ dotall \/ s[d] # NL

\* line 77: re.search(r"select\s+.+\s+from\s+.+", s), without flags
SearchSelectFrom(s) == SearchSelectFromFlags(s, FALSE)

\* re.search(r"from\s*$", s): $ is the end, or before a newline that ends s
SearchTrailingFrom(s) ==
    \E i \in 1..Len(s) :
        /\ LitAt(s, i, kw_from)
        /\ SpacesEnd(s, i + 4) = Len(s) + 1

\* re.search(r";.*\S", s): . matches no newline
SearchAfterSemicolon(s) ==
    \E i \in 1..Len(s) :
        /\ s[i] = ";"
        /\ \E j \in (i + 1)..Len(s) :
              /\ ~IsSpace(s[j])
              /\ NoNewline(s, i + 1, j - 1)

\* common_errors with the semicolon pattern moved to the front
common_errors_SemicolonFirst == <<
    <<"after_semicolon", "Extra characters after semicolon">>,
    <<"where_and", "Found 'WHERE AND' - remove the extra AND">>,
    <<"where_or", "Found 'WHERE OR' - remove the extra OR">>,
    <<"from_from", "Duplicate FROM clause">>,
    <<"select_select", "Duplicate SELECT clause">>,
    <<"where_where", "Duplicate WHERE clause">>,
    <<"from_end", "FROM clause cannot be at the end without a table name">> >>

\* the common_errors list: pattern, message
common_errors == <<
    <<"where_and", "Found 'WHERE AND' - remove the extra AND">>,
    <<"where_or", "Found 'WHERE OR' - remove the extra OR">>,
    <<"from_from", "Duplicate FROM clause">>,
    <<"select_select", "Duplicate SELECT clause">>,
    <<"where_where", "Duplicate WHERE clause">>,
    <<"from_end", "FROM clause cannot be at the end without a table name">>,
    <<"after_semicolon", "Extra characters after semicolon">> >>

\* re.search(pattern, s) for the patterns of common_errors
SearchPattern(pattern, s) ==
    CASE pattern = "where_and" -> SearchKwSpKw(s, kw_where, kw_and)
      [] pattern = "where_or" -> SearchKwSpKw(s, kw_where, kw_or)
      [] pattern = "from_from" -> SearchKwSpKw(s, kw_from, kw_from)
      [] pattern = "select_select" -> SearchKwSpKw(s, kw_select, kw_select)
      [] pattern = "where_where" -> SearchKwSpKw(s, kw_where, kw_where)
      [] pattern = "from_end" -> SearchTrailingFrom(s)
      [] pattern = "after_semicolon" -> SearchAfterSemicolon(s)

\* for pattern, message in errors: the index of the first pattern found in
\* s, 0 when the loop ends without a return
RECURSIVE FirstError(_, _, _)
FirstError(errors, s, i) ==
    IF i > Len(errors) THEN 0
    ELSE IF SearchPattern(errors[i][1], s) THEN i
    ELSE FirstError(errors, s, i + 1)

Rejected(message) == [valid |-> FALSE, message |-> message]

(***************************************************************************)
(* validate_sql: extraction of the columns, the table and the predicate.   *)
(***************************************************************************)
Min(S) == CHOOSE x \in S : \A y \in S : x <= y

\* the last position of the run of characters of class C that starts at i
RECURSIVE RunEnd(_, _, _)
RunEnd(s, i, C) ==
    IF i + 1 <= Len(s) /\ s[i + 1] \in C THEN RunEnd(s, i + 1, C) ELSE i

\* str.split(sep) for a one-character separator
RECURSIVE split(_, _)
split(s, sep) ==
    LET hits == {i \in 1..Len(s) : s[i] = sep}
    IN  IF hits = {} THEN <<s>>
        ELSE LET i == Min(hits)
             IN  <<SubSeq(s, 1, i - 1)>> \o split(SubSeq(s, i + 1, Len(s)), sep)

\* sep.join(parts)
RECURSIVE join(_, _)
join(parts, sep) ==
    IF parts = <<>> THEN <<>>
    ELSE IF Len(parts) = 1 THEN parts[1]
    ELSE parts[1] \o sep \o join(Tail(parts), sep)

\* str.strip("'")
RECURSIVE strip_quotes(_)
strip_quotes(s) ==
    IF s # <<>> /\ Head(s) = "'" THEN strip_quotes(Tail(s))
    ELSE IF s # <<>> /\ s[Len(s)] = "'" THEN strip_quotes(SubSeq(s, 1, Len(s) - 1))
    ELSE s

NoMatch == [found |-> FALSE]

\* the positions g >= a where \s+from matches
SpFromAt(s, g) ==
    /\ g <= Len(s)
    /\ IsSpace(s[g])
    /\ LitAt(s, SpacesEnd(s, g), kw_from)

\* re.search(r"select\s+(.*?)\s+from", s, re.DOTALL): the leftmost select;
\* \s+ is greedy and gives back one character at a time, the group is lazy
SelectMatch(s) ==
    LET Ends(a) == {g \in a..Len(s) : SpFromAt(s, g)}
        Starts(i) == {a \in (i + 7)..SpacesEnd(s, i + 6) : Ends(a) # {}}
        At(i) == LitAt(s, i, kw_select) /\ Starts(i) # {}
        hits == {i \in 1..Len(s) : At(i)}
    IN  IF hits = {} THEN NoMatch
        ELSE LET i == Min(hits)
                 a == CHOOSE x \in Starts(i) : \A y \in Starts(i) : y <= x
                 g == Min(Ends(a))
             IN  [found |-> TRUE, group1 |-> SubSeq(s, a, g - 1)]

all_columns == <<"a","l","l"," ","c","o","l","u","m","n","s">>

\* lines 97-102
SelectedColumns(s) ==
    LET select_match == SelectMatch(s)
    IN  IF select_match.found
        THEN LET cols == split(select_match.group1, ",")
                 selected_columns == [k \in 1..Len(cols) |-> strip(cols[k])]
             IN  IF \E k \in 1..Len(selected_columns) : selected_columns[k] = <<"*">>
                 THEN <<all_columns>>
                 ELSE selected_columns
        ELSE <<>>

\* re.search(r"from\s+(\w+)", s)
FromMatch(s) ==
    LET At(i) == /\ LitAt(s, i, kw_from)
                 /\ i + 4 <= Len(s)
                 /\ IsSpace(s[i + 4])
                 /\ SpacesEnd(s, i + 4) <= Len(s)
                 /\ IsWord(s[SpacesEnd(s, i + 4)])
        hits == {i \in 1..Len(s) : At(i)}
    IN  IF hits = {} THEN NoMatch
        ELSE LET w == SpacesEnd(s, Min(hits) + 4)
             IN  [found |-> TRUE, group1 |-> SubSeq(s, w, RunEnd(s, w, WordChars))]

unknown == <<"u","n","k","n","o","w","n">>

\* line 106
TableName(s) ==
    LET from_match == FromMatch(s)
    IN  IF from_match.found THEN from_match.group1 ELSE unknown

\* query.split(';')[0].strip()
CleanQuery(q) == strip(split(q, ";")[1])

\* \s+ k1 \s+ k2 ... matches at position i of s, for the literals of kws
RECURSIVE SpKwsAt(_, _, _)
SpKwsAt(s, i, kws) ==
    IF kws = <<>> THEN TRUE
    ELSE /\ i <= Len(s)
         /\ IsSpace(s[i])
         /\ LitAt(s, SpacesEnd(s, i), Head(kws))
         /\ SpKwsAt(s, SpacesEnd(s, i) + Len(Head(kws)), Tail(kws))

\* p is the first character of a word of s
WordStart(s, p) == IsWord(s[p]) /\ (p = 1 \/ ~IsWord(s[p - 1]))

\* re.search of (\w+) followed by \s+ k1 \s+ k2 ...: \w+ is greedy, so a
\* match that starts at p takes the word run from p to its end; a match
\* that starts inside a word starts at the word's first character too, so
\* the leftmost match starts at the first character of a word
WordThenKws(s, kws) ==
    LET At(p) == WordStart(s, p) /\ SpKwsAt(s, RunEnd(s, p, WordChars) + 1, kws)
        hits == {p \in 1..Len(s) : At(p)}
    IN  IF hits = {} THEN NoMatch
        ELSE LET p == Min(hits)
             IN  [found |-> TRUE, group1 |-> SubSeq(s, p, RunEnd(s, p, WordChars))]

\* the IS NULL pattern cut after the word is: r"(\w+)\s+is"
NullCheck_UpToIs(s) == WordThenKws(s, <<kw_is>>)

\* re.search(r"(\w+)\s+is\s+null", s)
NullCheck(s) == WordThenKws(s, <<kw_is, kw_null>>)

\* re.search(r"(\w+)\s+is\s+not\s+null", s)
NotNullCheck(s) == WordThenKws(s, <<kw_is, kw_not, kw_null>>)

\* re.search(r"(\w+)\s+in\s+\(\s*(.*?)\s*\)", s): . matches no newline; the
\* \s* after ( is greedy, the group is lazy and ends where \s*\) first matches
InClause(s) ==
    LET Open(p) == SpacesEnd(s, RunEnd(s, p, WordChars) + 1) + 2
        \* the position of ( when (\w+)\s+in\s+\( matches at p
        Paren(p) == SpacesEnd(s, Open(p))
        Head1(p) == /\ WordStart(s, p)
                    /\ SpKwsAt(s, RunEnd(s, p, WordChars) + 1, <<kw_in>>)
                    /\ Open(p) <= Len(s)
                    /\ IsSpace(s[Open(p)])
                    /\ Paren(p) <= Len(s)
                    /\ s[Paren(p)] = "("
        Start(p) == SpacesEnd(s, Paren(p) + 1)
        Ends(p) == {g \in Start(p)..Len(s) :
                       /\ NoNewline(s, Start(p), g - 1)
                       /\ SpacesEnd(s, g) <= Len(s)
                       /\ s[SpacesEnd(s, g)] = ")"}
        hits == {p \in 1..Len(s) : Head1(p) /\ Ends(p) # {}}
    IN  IF hits = {} THEN NoMatch
        ELSE LET p == Min(hits)
             IN  [found |-> TRUE,
                  group1 |-> SubSeq(s, p, RunEnd(s, p, WordChars)),
                  group2 |-> SubSeq(s, Start(p), Min(Ends(p)) - 1)]

\* re.findall(r"'([^']*)'|([^',\s]+)", values), then v[0] if v[0] else v[1]
RECURSIVE ParsedValues(_, _)
ParsedValues(s, k) ==
    IF k > Len(s) THEN <<>>
    ELSE IF s[k] = "'"
    THEN LET closes == {j \in (k + 1)..Len(s) : s[j] = "'"}
         IN  IF closes = {} THEN ParsedValues(s, k + 1)
             ELSE <<SubSeq(s, k + 1, Min(closes) - 1)>>
                      \o ParsedValues(s, Min(closes) + 1)
    ELSE IF s[k] = "," \/ IsSpace(s[k]) THEN ParsedValues(s, k + 1)
    ELSE LET e == RunEnd(s, k, Alphabet \ ({"'", ","} \cup Whitespace))
         IN  <<SubSeq(s, k, e)>> \o ParsedValues(s, e + 1)

\* the alternation (=|!=|>|<|>=|<=), in the order the regex tries it
Operators == << <<"=">>, <<"!","=">>, <<">">>, <<"<">>, <<">","=">>, <<"<","=">> >>

ValueChars == WordChars \cup {"'"}

\* re.search(r"(\w+)\s*(=|!=|>|<|>=|<=)\s*(['\w]+)", s)
ComparisonMatch(s) ==
    LET OpPos(p) == SpacesEnd(s, RunEnd(s, p, WordChars) + 1)
        ValPos(p, k) == SpacesEnd(s, OpPos(p) + Len(Operators[k]))
        Ops(p) == LET o == OpPos(p)
                  IN  {k \in 1..Len(Operators) :
                          /\ LitAt(s, o, Operators[k])
                          /\ LET v == SpacesEnd(s, o + Len(Operators[k]))
                             IN  v <= Len(s) /\ s[v] \in ValueChars}
        hits == {p \in 1..Len(s) : WordStart(s, p) /\ Ops(p) # {}}
    IN  IF hits = {} THEN NoMatch
        ELSE LET p == Min(hits)
                 k == Min(Ops(p))
                 v == ValPos(p, k)
             IN  [found |-> TRUE,
                  group1 |-> SubSeq(s, p, RunEnd(s, p, WordChars)),
                  group2 |-> Operators[k],
                  group3 |-> SubSeq(s, v, RunEnd(s, v, ValueChars))]

(***************************************************************************)
(* validate_sql: the handler.                                              *)
(***************************************************************************)
comma_space == <<",", " ">>

\* predicate_order with the comparison pattern tried before the IN pattern
predicate_order_ComparisonFirst ==
    <<"null_check", "not_null_check", "comparison", "in_clause">>

\* lines 111-179: the predicate patterns, in the order the code tries them
predicate_order == <<"null_check", "not_null_check", "in_clause", "comparison">>

\* re.search of the pattern of one predicate kind on the cleaned text
PredicateMatch(kind, clean_query) ==
    CASE kind = "null_check" -> NullCheck(clean_query)
      [] kind = "not_null_check" -> NotNullCheck(clean_query)
      [] kind = "in_clause" -> InClause(clean_query)
      [] kind = "comparison" -> ComparisonMatch(clean_query)

\* the first kind of order whose pattern is found, "none" when none is
RECURSIVE FirstPredicate(_, _, _)
FirstPredicate(order, clean_query, i) ==
    IF i > Len(order) THEN "none"
    ELSE IF PredicateMatch(order[i], clean_query).found THEN order[i]
    ELSE FirstPredicate(order, clean_query, i + 1)

\* lines 95-188: extraction, then the return of the first predicate found
Classify(q) ==
    LET s == lower(q)
        selected_columns == SelectedColumns(s)
        table_name == TableName(s)
        clean_query == lower(CleanQuery(q))
        kind == FirstPredicate(predicate_order, clean_query, 1)
        m == PredicateMatch(kind, clean_query)
        cols == join(selected_columns, comma_space)
    IN  IF kind = "null_check"
        THEN [valid |-> TRUE,
              message |-> <<"Query would return ", cols, " from ", table_name,
                            " where ", m.group1, " IS NULL">>,
              operation |-> "null_check",
              column |-> m.group1,
              selected_columns |-> selected_columns,
              table |-> table_name,
              query_type |-> "filter",
              rows_affected |-> <<"rows where column value is NULL">>]
        ELSE IF kind = "not_null_check"
        THEN [valid |-> TRUE,
              message |-> <<"Query would return ", cols, " from ", table_name,
                            " where ", m.group1, " IS NOT NULL">>,
              operation |-> "not_null_check",
              column |-> m.group1,
              selected_columns |-> selected_columns,
              table |-> table_name,
              query_type |-> "filter",
              rows_affected |-> <<"rows where column value is not NULL">>]
        ELSE IF kind = "in_clause"
        THEN LET parsed_values == ParsedValues(m.group2, 1)
             IN  [valid |-> TRUE,
                  message |-> <<"Query would return ", cols, " from ", table_name,
                                " where ", m.group1, " is in (",
                                join(parsed_values, comma_space), ")">>,
                  operation |-> "in_clause",
                  column |-> m.group1,
                  values |-> parsed_values,
                  selected_columns |-> selected_columns,
                  table |-> table_name,
                  query_type |-> "filter",
                  rows_affected |-> <<"rows where ", m.group1,
                                      " matches any of these values: ",
                                      join(parsed_values, comma_space)>>]
        ELSE IF kind = "comparison"
        THEN LET value == strip_quotes(m.group3)
             IN  [valid |-> TRUE,
                  message |-> <<"Query would return ", cols, " from ", table_name,
                                " where ", m.group1, " ", m.group2, " ", value>>,
                  operation |-> "comparison",
                  column |-> m.group1,
                  operator |-> m.group2,
                  value |-> value,
                  selected_columns |-> selected_columns,
                  table |-> table_name,
                  query_type |-> "filter",
                  rows_affected |-> <<"rows where ", m.group1, " ", m.group2,
                                      " ", value>>]
        ELSE [valid |-> TRUE,
              message |-> <<"Query would select ", cols, " from ", table_name>>,
              selected_columns |-> selected_columns,
              table |-> table_name,
              query_type |-> "select",
              rows_affected |-> <<"all rows in table">>]

\* lines 91-93: the loop over common_errors
CommonError(s) == FirstError(common_errors, s, 1)

\* try_body with the predicate patterns tried before the common_errors loop
try_body_ClassifyFirst(q) ==
    IF q = <<>> \/ Len(q) < MinQueryLen
    THEN Rejected(<<"Query is too short">>)
    ELSE IF ~startswith(strip(lower(q)), kw_select)
    THEN Rejected(<<"Only SELECT queries are allowed">>)
    ELSE IF count(q, "(") # count(q, ")")
    THEN Rejected(<<"Unbalanced parentheses in query">>)
    ELSE IF ~SearchSelectFrom(lower(q))
    THEN Rejected(<<"Query must include both SELECT and FROM clauses">>)
    ELSE IF FirstPredicate(predicate_order, lower(CleanQuery(q)), 1) # "none"
    THEN Classify(q)
    ELSE LET error == CommonError(lower(q))
         IN  IF error # 0
             THEN Rejected(<<common_errors[error][2]>>)
             ELSE Classify(q)

\* try_body with the parenthesis count moved before the statement-kind check
try_body_ParensFirst(q) ==
    IF q = <<>> \/ Len(q) < MinQueryLen
    THEN Rejected(<<"Query is too short">>)
    ELSE IF count(q, "(") # count(q, ")")
    THEN Rejected(<<"Unbalanced parentheses in query">>)
    ELSE IF ~startswith(strip(lower(q)), kw_select)
    THEN Rejected(<<"Only SELECT queries are allowed">>)
    ELSE IF ~SearchSelectFrom(lower(q))
    THEN Rejected(<<"Query must include both SELECT and FROM clauses">>)
    ELSE LET error == CommonError(lower(q))
         IN  IF error # 0
             THEN Rejected(<<common_errors[error][2]>>)
             ELSE Classify(q)

\* try_body with the length taken of the trimmed text
try_body_StripFirst(q) ==
    IF q = <<>> \/ Len(strip(q)) < MinQueryLen
    THEN Rejected(<<"Query is too short">>)
    ELSE IF ~startswith(strip(lower(q)), kw_select)
    THEN Rejected(<<"Only SELECT queries are allowed">>)
    ELSE IF count(q, "(") # count(q, ")")
    THEN Rejected(<<"Unbalanced parentheses in query">>)
    ELSE IF ~SearchSelectFrom(lower(q))
    THEN Rejected(<<"Query must include both SELECT and FROM clauses">>)
    ELSE LET error == CommonError(lower(q))
         IN  IF error # 0
             THEN Rejected(<<common_errors[error][2]>>)
             ELSE Classify(q)

\* lines 64-188: the body of the try block, when nothing in it raises
try_body(q) ==
    IF q = <<>> \/ Len(q) < MinQueryLen
    THEN Rejected(<<"Query is too short">>)
    ELSE IF ~startswith(strip(lower(q)), kw_select)
    THEN Rejected(<<"Only SELECT queries are allowed">>)
    ELSE IF count(q, "(") # count(q, ")")
    THEN Rejected(<<"Unbalanced parentheses in query">>)
    ELSE IF ~SearchSelectFrom(lower(q))
    THEN Rejected(<<"Query must include both SELECT and FROM clauses">>)
    ELSE LET error == CommonError(lower(q))
         IN  IF error # 0
             THEN Rejected(<<common_errors[error][2]>>)
             ELSE Classify(q)

\* no exception is raised inside the try block
NoFault == "no fault"

\* str(e) of the exceptions the model raises inside the try block
Faults == {"boom"}

\* what a handler hands to its caller: the dict it returns ...
Returned(value) == value

\* ... or the exception that leaves it
Raised(text) == [exception |-> text]

\* validate_sql with an except clause that re-raises
validate_sql_Reraise(q, e) ==
    IF e = NoFault
    THEN Returned(try_body(q))
    ELSE Raised(e)

\* lines 60-191: the try block and its except Exception clause; e is the
\* exception raised inside the block, NoFault when there is none
validate_sql(q, e) ==
    IF e = NoFault
    THEN Returned(try_body(q))
    ELSE Returned(Rejected(<<"Error: ", e>>))

(***************************************************************************)
(* The request texts of the model: one head, then up to MaxTail tails.     *)
(***************************************************************************)
\* "select a from t"
H_plain == <<"s","e","l","e","c","t"," ","a"," ","f","r","o","m"," ","t">>
\* "SELECT x FROM"
H_upper == <<"S","E","L","E","C","T"," ","x"," ","F","R","O","M">>
\* "select a,\nb from t"
H_multiline == <<"s","e","l","e","c","t"," ","a",",","\n","b"," ","f","r","o","m"," ","t">>
\* "select a from t where"
H_where == <<"s","e","l","e","c","t"," ","a"," ","f","r","o","m"," ","t"," ","w","h","e","r","e">>
\* "sel "
H_short == <<"s","e","l"," ">>
\* "select"
H_bare == <<"s","e","l","e","c","t">>
\* "select *, a from t"
H_star == <<"s","e","l","e","c","t"," ","*",","," ","a"," ","f","r","o","m"," ","t">>
\* "select a from (select b from u)"
H_subquery == <<"s","e","l","e","c","t"," ","a"," ","f","r","o","m"," ","(","s","e","l","e","c","t"," ","b"," ","f","r","o","m"," ","u",")">>
\* "select a from t where n in ('A', 'b c', d)"
H_inlist == <<"s","e","l","e","c","t"," ","a"," ","f","r","o","m"," ","t"," ","w","h","e","r","e"," ","n"," ","i","n"," ","(","'","A","'",","," ","'","b"," ","c","'",","," ","d",")">>
\* "select a from t where city >= 'new york'"
H_compare == <<"s","e","l","e","c","t"," ","a"," ","f","r","o","m"," ","t"," ","w","h","e","r","e"," ","c","i","t","y"," ",">","="," ","'","n","e","w"," ","y","o","r","k","'">>
\* " from"
T_from == <<" ","f","r","o","m">>
\* " order_id = 1"
T_order == <<" ","o","r","d","e","r","_","i","d"," ","="," ","1">>
\* " and id = 1"
T_and == <<" ","a","n","d"," ","i","d"," ","="," ","1">>
\* " where id in (1,2)"
T_in == <<" ","w","h","e","r","e"," ","i","d"," ","i","n"," ","(","1",",","2",")">>
\* " where s is not null"
T_notnull == <<" ","w","h","e","r","e"," ","s"," ","i","s"," ","n","o","t"," ","n","u","l","l">>
\* " where s is null"
T_null == <<" ","w","h","e","r","e"," ","s"," ","i","s"," ","n","u","l","l">>
\* "; drop table t"
T_drop == <<";"," ","d","r","o","p"," ","t","a","b","l","e"," ","t">>
\* ";\ndrop table t"
T_dropnl == <<";","\n","d","r","o","p"," ","t","a","b","l","e"," ","t">>
\* ";"
T_semi == <<";">>
\* "("
T_paren == <<"(">>
\* " select a from t"
T_select == <<" ","s","e","l","e","c","t"," ","a"," ","f","r","o","m"," ","t">>

Heads == {<<>>, H_plain, H_upper, H_multiline, H_where, H_short, H_bare,
          H_star, H_subquery, H_inlist, H_compare}

Tails == {T_from, T_order, T_and, T_in, T_notnull, T_null,
          T_drop, T_dropnl, T_semi, T_paren, T_select}

RECURSIVE Flatten(_)
Flatten(parts) == IF parts = <<>> THEN <<>> ELSE Head(parts) \o Flatten(Tail(parts))

Inputs ==
    {h \o Flatten(ts) : h \in Heads, ts \in UNION {[1..k -> Tails] : k \in 0..MaxTail}}

(***************************************************************************)
(* The service: its state and its handlers.                                *)
(***************************************************************************)
\* DatabaseConnection (models.py): what a /connect request carries
Connections ==
    [host : {"localhost"}, port : {5432}, database : {"sales", "hr"},
     user : {"postgres"}, password : {"secret", "changed"}]

\* routes.py line 49: f"{host}:{port}/{database}"
ConnectionKey(connection) == <<connection.host, ":", connection.port, "/", connection.database>>

ConnectionKeys == {ConnectionKey(c) : c \in Connections}

\* what test_connection does: it returns True, or re-raises what
\* psycopg2.connect raised
TestOutcomes == {"True", "OperationalError", "Exception"}

DatasetIds == {"d1", "d2"}

Datasets == {[name |-> "orders"], [name |-> "orders v2"]}

\* a function with an empty domain: {} in Python
EmptyDict == [k \in {} |-> TRUE]

\* d[key] = value
SetItem(d, key, value) ==
    [k \in DOMAIN d \cup {key} |-> IF k = key THEN value ELSE d[k]]

\* del d[key]
DelItem(d, key) == [k \in DOMAIN d \ {key} |-> d[k]]

\* list(d.values()), as the bag of the values: value -> number of keys
Values(d) ==
    [v \in {d[k] : k \in DOMAIN d} |-> Cardinality({k \in DOMAIN d : d[k] = v})]

\* public_datasets.json: not there, ...
NoFile == [exists |-> FALSE]

\* ... empty after open(file, 'w'), ...
EmptyFile == [exists |-> TRUE, json |-> FALSE, text |-> "empty"]

\* ... holding the bytes of two writers, ...
GarbledFile == [exists |-> TRUE, json |-> FALSE, text |-> "garbled"]

\* ... or what json.dump wrote of a dict
JsonFile(public_datasets) == [exists |-> TRUE, json |-> TRUE, content |-> public_datasets]

\* no /connect or /public-datasets request has been answered
NoExchange == [request |-> <<"none">>]

\* no server process is inside a registry function
NoWriters == EmptyDict

\* one /validate-sql request, with any text of Inputs
Init ==
    /\ query \in Inputs
    /\ responses = <<>>
    /\ calls_left = 1
    /\ fault = NoFault
    /\ active_connections = EmptyDict
    /\ public_datasets_file = NoFile
    /\ exchange = NoExchange
    /\ added = EmptyDict
    /\ writers = NoWriters

\* ValidateSql with an answer that depends on the connection cache
ValidateSql_Stateful ==
    /\ calls_left > 0
    /\ responses' =
          Append(responses,
                 IF DOMAIN active_connections = {}
                 THEN validate_sql(query, fault)
                 ELSE Returned(Rejected(<<"Error: ", "connection in use">>)))
    /\ calls_left' = calls_left - 1
    /\ UNCHANGED <<query, fault, active_connections, public_datasets_file,
                   exchange, added, writers>>

\* GET /validate-sql (app.py lines 57-191) with the request text
ValidateSql ==
    /\ calls_left > 0
    /\ responses' = Append(responses, validate_sql(query, fault))
    /\ calls_left' = calls_left - 1
    /\ UNCHANGED <<query, fault, active_connections, public_datasets_file,
                   exchange, added, writers>>

\* what connect_database returns for each outcome of test_connection
ConnectResponse(connection, outcome) ==
    CASE outcome = "True" ->
             [success |-> TRUE, message |-> "Connection successful",
              connectionKey |-> ConnectionKey(connection)]
      [] outcome = "OperationalError" ->
             [success |-> FALSE, error |-> "OperationalError",
              troubleshooting |-> "tips"]
      [] outcome = "Exception" ->
             [success |-> FALSE, error |-> <<"Unexpected error: ", "Exception">>]

\* ConnectDatabase that stores the parameters before it tests them
ConnectDatabase_StoreFirst ==
    \E connection \in Connections, outcome \in TestOutcomes :
        /\ active_connections' =
              SetItem(active_connections, ConnectionKey(connection), connection)
        /\ exchange' = [request |-> <<"connect", connection>>,
                        response |-> ConnectResponse(connection, outcome)]
        /\ UNCHANGED <<query, responses, calls_left, fault, public_datasets_file,
                       added, writers>>

\* POST /connect (routes.py lines 37-69): test_connection returns True or
\* raises; only a successful test stores the parameters
ConnectDatabase ==
    \E connection \in Connections, outcome \in TestOutcomes :
        /\ active_connections' =
              IF outcome = "True"
              THEN SetItem(active_connections, ConnectionKey(connection), connection)
              ELSE active_connections
        /\ exchange' = [request |-> <<"connect", connection>>,
                        response |-> ConnectResponse(connection, outcome)]
        /\ UNCHANGED <<query, responses, calls_left, fault, public_datasets_file,
                       added, writers>>

\* DELETE /connect/{connection_key} (routes.py lines 71-80)
DisconnectDatabase ==
    \E connection_key \in ConnectionKeys :
        /\ IF connection_key \in DOMAIN active_connections
           THEN /\ active_connections' = DelItem(active_connections, connection_key)
                /\ exchange' =
                      [request |-> <<"disconnect", connection_key>>,
                       response |-> [success |-> TRUE,
                                     message |-> <<"Disconnected from ", connection_key>>]]
           ELSE /\ active_connections' = active_connections
                /\ exchange' =
                      [request |-> <<"disconnect", connection_key>>,
                       response |-> [success |-> FALSE, error |-> "Connection not found"]]
        /\ UNCHANGED <<query, responses, calls_left, fault, public_datasets_file,
                       added, writers>>

\* load_public_datasets (services.py lines 80-89): {} when the file is not
\* there, and when json.load raises
load_public_datasets ==
    IF public_datasets_file.exists /\ public_datasets_file.json
    THEN public_datasets_file.content
    ELSE EmptyDict

\* GET /public-datasets (routes.py lines 177-184)
FetchPublicDatasets ==
    /\ exchange' = [request |-> <<"list">>,
                    response |-> [datasets |-> Values(load_public_datasets)]]
    /\ UNCHANGED <<query, responses, calls_left, fault, active_connections,
                   public_datasets_file, added, writers>>

\* AddDatasetToPublic that leaves the entry of an id that is in the file
AddDatasetToPublic_KeepExisting ==
    \E dataset_id \in DatasetIds, dataset \in Datasets :
        /\ public_datasets_file' =
              JsonFile(IF dataset_id \in DOMAIN load_public_datasets
                       THEN load_public_datasets
                       ELSE SetItem(load_public_datasets, dataset_id, dataset))
        /\ exchange' = [request |-> <<"add", dataset_id, dataset>>,
                        response |-> [success |-> TRUE]]
        /\ added' = SetItem(added, dataset_id, dataset)
        /\ UNCHANGED <<query, responses, calls_left, fault, active_connections, writers>>

\* POST /public-datasets/{dataset_id} (routes.py lines 186-194):
\* add_public_dataset loads the file, sets the entry and saves the whole dict
AddDatasetToPublic ==
    \E dataset_id \in DatasetIds, dataset \in Datasets :
        /\ public_datasets_file' =
              JsonFile(SetItem(load_public_datasets, dataset_id, dataset))
        /\ exchange' = [request |-> <<"add", dataset_id, dataset>>,
                        response |-> [success |-> TRUE]]
        /\ added' = SetItem(added, dataset_id, dataset)
        /\ UNCHANGED <<query, responses, calls_left, fault, active_connections, writers>>

\* DELETE /public-datasets/{dataset_id} (routes.py lines 196-208):
\* remove_public_dataset saves only when the id is in the loaded dict, and
\* the handler raises HTTPException(404) when it is not
DeletePublicDataset ==
    \E dataset_id \in DatasetIds :
        /\ IF dataset_id \in DOMAIN load_public_datasets
           THEN /\ public_datasets_file' =
                      JsonFile(DelItem(load_public_datasets, dataset_id))
                /\ exchange' = [request |-> <<"remove", dataset_id>>,
                                response |-> [success |-> TRUE]]
           ELSE /\ public_datasets_file' = public_datasets_file
                /\ exchange' = [request |-> <<"remove", dataset_id>>,
                                response |-> [status_code |-> 404,
                                              detail |-> "Dataset not found"]]
        /\ added' = DelItem(added, dataset_id)
        /\ UNCHANGED <<query, responses, calls_left, fault, active_connections, writers>>

Next == ValidateSql

\* the classifier alone: one request per behaviour
Spec == Init /\ [][Next]_vars

\* one /validate-sql request in which an exception may be raised
InitFault ==
    /\ query \in Inputs
    /\ responses = <<>>
    /\ calls_left = 1
    /\ fault \in Faults \cup {NoFault}
    /\ active_connections = EmptyDict
    /\ public_datasets_file = NoFile
    /\ exchange = NoExchange
    /\ added = EmptyDict
    /\ writers = NoWriters

SpecFault == InitFault /\ [][Next]_vars

\* the texts sent while the other handlers run
ServiceInputs ==
    {H_plain \o T_null, H_plain \o T_in \o T_and, H_upper \o T_from,
     H_where \o T_order, H_plain \o T_drop, H_plain \o T_dropnl, H_short, <<>>}

InitService ==
    /\ query \in ServiceInputs
    /\ responses = <<>>
    /\ calls_left = MaxCalls
    /\ fault = NoFault
    /\ active_connections = EmptyDict
    /\ public_datasets_file = NoFile
    /\ exchange = NoExchange
    /\ added = EmptyDict
    /\ writers = NoWriters

\* one server process: each handler runs to its return before the next
\* request is taken (async def without await)
NextService ==
    \/ ValidateSql
    \/ ConnectDatabase
    \/ DisconnectDatabase
    \/ FetchPublicDatasets
    \/ AddDatasetToPublic
    \/ DeletePublicDataset

\* the service: repeated /validate-sql requests between the other requests
SpecService == InitService /\ [][NextService]_vars

(***************************************************************************)
(* Two server processes that share public_datasets.json: the steps of      *)
(* add_public_dataset and remove_public_dataset, one file access each.     *)
(***************************************************************************)
Writers == {"w1", "w2"}

\* the registry requests a writer may be handling
WriterRequests ==
    {<<"add", dataset_id, dataset>> : dataset_id \in DatasetIds, dataset \in Datasets}
        \cup {<<"remove", dataset_id>> : dataset_id \in DatasetIds}

Idle == [pc |-> "idle"]

\* lines 107-108 and 114-116: load the file, then change the dict in memory
WriterLoad(w) ==
    /\ writers[w].pc = "idle"
    /\ \E request \in WriterRequests :
          LET public_datasets == load_public_datasets
              dataset_id == request[2]
          IN  writers' =
                 [writers EXCEPT ![w] =
                     IF request[1] = "add"
                     THEN [pc |-> "open", request |-> request,
                           public_datasets |->
                               SetItem(public_datasets, dataset_id, request[3])]
                     ELSE IF dataset_id \in DOMAIN public_datasets
                     THEN [pc |-> "open", request |-> request,
                           public_datasets |-> DelItem(public_datasets, dataset_id)]
                     ELSE [pc |-> "done", request |-> request,
                           response |-> [status_code |-> 404,
                                         detail |-> "Dataset not found"]]]
    /\ UNCHANGED <<query, responses, calls_left, fault, active_connections,
                   public_datasets_file, exchange, added>>

\* line 94: open(PUBLIC_DATASETS_FILE, 'w') truncates the file
WriterOpen(w) ==
    /\ writers[w].pc = "open"
    /\ public_datasets_file' = EmptyFile
    /\ writers' = [writers EXCEPT ![w].pc = "dump"]
    /\ UNCHANGED <<query, responses, calls_left, fault, active_connections,
                   exchange, added>>

\* WriterDump that reads the file again and adds its dict to what it finds
WriterDump_Merge(w) ==
    /\ writers[w].pc = "dump"
    /\ public_datasets_file' =
          JsonFile([k \in DOMAIN load_public_datasets \cup DOMAIN writers[w].public_datasets |->
                       IF k \in DOMAIN writers[w].public_datasets
                       THEN writers[w].public_datasets[k]
                       ELSE load_public_datasets[k]])
    /\ writers' = [writers EXCEPT ![w] =
                      [pc |-> "done", request |-> writers[w].request,
                       public_datasets |-> writers[w].public_datasets,
                       response |-> [success |-> TRUE]]]
    /\ UNCHANGED <<query, responses, calls_left, fault, active_connections,
                   exchange, added>>

\* lines 95-96: json.dump and the close write the text from offset 0.  On
\* the file as this writer's open left it the file becomes the writer's
\* dict; on a text that another writer wrote since, the file becomes the
\* writer's dict when its text is no shorter than that one, and else its
\* text followed by the end of the other
WriterDump(w) ==
    /\ writers[w].pc = "dump"
    /\ \/ public_datasets_file' = JsonFile(writers[w].public_datasets)
       \/ /\ public_datasets_file # EmptyFile
          /\ public_datasets_file' = GarbledFile
    /\ writers' = [writers EXCEPT ![w] =
                      [pc |-> "done", request |-> writers[w].request,
                       public_datasets |-> writers[w].public_datasets,
                       response |-> [success |-> TRUE]]]
    /\ UNCHANGED <<query, responses, calls_left, fault, active_connections,
                   exchange, added>>

\* two writers, each handling one registry request, on a file that is not
\* there yet or that holds one dataset
InitRace ==
    /\ query = H_plain
    /\ responses = <<>>
    /\ calls_left = 0
    /\ fault = NoFault
    /\ active_connections = EmptyDict
    /\ public_datasets_file \in
          {NoFile} \cup {JsonFile(SetItem(EmptyDict, id, d)) : id \in DatasetIds, d \in Datasets}
    /\ exchange = NoExchange
    /\ added = load_public_datasets
    /\ writers = [w \in Writers |-> Idle]

NextRace ==
    \E w \in Writers :
        \/ WriterLoad(w)
        \/ WriterOpen(w)
        \/ WriterDump(w)

\* the registry functions of two processes, interleaved at their file accesses
SpecRace == InitRace /\ [][NextRace]_vars

(***************************************************************************)
(* The claims.                                                             *)
(***************************************************************************)
\* a /validate-sql request has been answered
Answered == responses # <<>>

\* the answer to the first request
Response == responses[1]

\* the answer is the dict of a rejection with this message
RejectedWith(message) ==
    /\ Answered
    /\ "valid" \in DOMAIN Response
    /\ ~Response.valid
    /\ Response.message = <<message>>

\* the answer is the dict of an acceptance
Accepted ==
    /\ Answered
    /\ "valid" \in DOMAIN Response
    /\ Response.valid

\* the five rejection checks, each on its own
FailsLength(q) == Len(q) < MinQueryLen

FailsKind(q) == ~startswith(strip(lower(q)), kw_select)

FailsParens(q) == count(q, "(") # count(q, ")")

FailsStructure(q) == ~SearchSelectFrom(lower(q))

\* the seven common-error patterns and messages, in the order the spec
\* lists them
ListedErrors == <<
    <<"where_and", "Found 'WHERE AND' - remove the extra AND">>,
    <<"where_or", "Found 'WHERE OR' - remove the extra OR">>,
    <<"from_from", "Duplicate FROM clause">>,
    <<"select_select", "Duplicate SELECT clause">>,
    <<"where_where", "Duplicate WHERE clause">>,
    <<"from_end", "FROM clause cannot be at the end without a table name">>,
    <<"after_semicolon", "Extra characters after semicolon">> >>

\* the listed patterns found in the lower-cased text
ListedHits(q) == {i \in 1..Len(ListedErrors) : SearchPattern(ListedErrors[i][1], lower(q))}

FailsCommon(q) == ListedHits(q) # {}

PassesChecks1to3(q) == ~FailsLength(q) /\ ~FailsKind(q) /\ ~FailsParens(q)

PassesChecks1to4(q) == PassesChecks1to3(q) /\ ~FailsStructure(q)

\* C1: the rejection reason is that of the first check, in the order length,
\* statement kind, parenthesis balance, SELECT/FROM structure, common-error
\* scan, that the text fails; a text that fails none is accepted.  So
\* "Unbalanced parentheses in query" is returned only for a text of 5 or
\* more characters that starts with select, and "Only SELECT queries are
\* allowed" only for a text of 5 or more characters.
C1_CheckOrder ==
    Answered =>
        /\ FailsLength(query) <=> RejectedWith("Query is too short")
        /\ (~FailsLength(query) /\ FailsKind(query))
              <=> RejectedWith("Only SELECT queries are allowed")
        /\ (~FailsLength(query) /\ ~FailsKind(query) /\ FailsParens(query))
              <=> RejectedWith("Unbalanced parentheses in query")
        /\ (PassesChecks1to3(query) /\ FailsStructure(query))
              <=> RejectedWith("Query must include both SELECT and FROM clauses")
        /\ (PassesChecks1to4(query) /\ FailsCommon(query))
              <=> \E i \in 1..Len(ListedErrors) : RejectedWith(ListedErrors[i][2])
        /\ (PassesChecks1to4(query) /\ ~FailsCommon(query)) <=> Accepted

\* a text of 5 or more characters that is no SELECT and has unbalanced
\* parentheses is rejected for its statement kind
C1_Witness ==
    /\ ~FailsLength(query)
    /\ FailsKind(query)
    /\ FailsParens(query)
    /\ RejectedWith("Only SELECT queries are allowed")

\* C2: validate_sql never raises to its caller: every answer is a dict with
\* valid = false and a message, or with valid = true, and an exception
\* raised inside the handler is answered with valid = false and the message
\* "Error: " followed by the exception's text.
C2_NeverRaises ==
    Answered =>
        /\ "exception" \notin DOMAIN Response
        /\ {"valid", "message"} \subseteq DOMAIN Response
        /\ Response.valid \in BOOLEAN
        /\ ~Response.valid => DOMAIN Response = {"valid", "message"}
        /\ fault # NoFault => Response = Rejected(<<"Error: ", fault>>)

\* an exception was raised inside the handler and answered as a rejection
C2_Witness ==
    /\ Answered
    /\ fault \in Faults
    /\ Response = Rejected(<<"Error: ", fault>>)

C4_MultilineStructure ==
    (Answered /\ PassesChecks1to3(query) /\ SearchSelectFromFlags(lower(query), TRUE))
        => ~RejectedWith("Query must include both SELECT and FROM clauses")

\* the text has a select list followed by from
HasSelectList(q) == SelectMatch(lower(q)).found

\* C5: a query of the shape select <list> from that ends with the FROM
\* keyword, no table name after it, is rejected with "FROM clause cannot be
\* at the end without a table name" (when none of the five patterns listed
\* before it is found).
C5_TrailingFrom ==
    (/\ Answered
     /\ PassesChecks1to3(query)
     /\ HasSelectList(query)
     /\ SearchTrailingFrom(lower(query))
     /\ ListedHits(query) \cap 1..5 = {})
        => RejectedWith("FROM clause cannot be at the end without a table name")

\* some character that is no whitespace stands after a semicolon, on the
\* same line or on a later one
ContentAfterSemicolon(q) ==
    \E i \in 1..Len(q) : q[i] = ";" /\ \E j \in (i + 1)..Len(q) : ~IsSpace(q[j])

\* C6: a query that passes checks 1-4, matches none of the six patterns
\* listed before the semicolon pattern and has content that is no
\* whitespace anywhere after a semicolon is rejected with "Extra characters
\* after semicolon".
C6_AfterSemicolon ==
    (/\ Answered
     /\ PassesChecks1to4(query)
     /\ ListedHits(query) \cap 1..6 = {}
     /\ ContentAfterSemicolon(query))
        => RejectedWith("Extra characters after semicolon")

\* C7: when a query that passes checks 1-4 matches several common-error
\* patterns, it is rejected with the message of the earliest one in the
\* order WHERE AND, WHERE OR, duplicate FROM, duplicate SELECT, duplicate
\* WHERE, trailing FROM, extra characters after semicolon.
C7_FirstPattern ==
    (Answered /\ PassesChecks1to4(query) /\ FailsCommon(query))
        => LET first == Min(ListedHits(query))
           IN  RejectedWith(ListedErrors[first][2])

\* a query that matches two or more patterns, one of them the semicolon
\* pattern, was rejected with the message of the earliest
C7_Witness ==
    /\ PassesChecks1to4(query)
    /\ Cardinality(ListedHits(query)) >= 2
    /\ 7 \in ListedHits(query)
    /\ LET first == Min(ListedHits(query))
       IN  RejectedWith(ListedErrors[first][2])

\* re.search(r"\bk1\s+k2\b", s): the two literals as whole words
SearchKeywords(s, k1, k2) ==
    \E i \in 1..Len(s) :
        /\ LitAt(s, i, k1)
        /\ i = 1 \/ ~IsWord(s[i - 1])
        /\ i + Len(k1) <= Len(s)
        /\ IsSpace(s[i + Len(k1)])
        /\ LET j == SpacesEnd(s, i + Len(k1))
           IN  /\ LitAt(s, j, k2)
               /\ j + Len(k2) > Len(s) \/ ~IsWord(s[j + Len(k2)])

\* C8: the WHERE AND and WHERE OR rejections are given only when the
\* keyword where is followed by the keyword and / or as a whole word, not by
\* an identifier that begins with these letters.
C8_WholeWord ==
    /\ RejectedWith("Found 'WHERE AND' - remove the extra AND")
          => SearchKeywords(lower(query), kw_where, kw_and)
    /\ RejectedWith("Found 'WHERE OR' - remove the extra OR")
          => SearchKeywords(lower(query), kw_where, kw_or)

\* the predicate patterns found in the cleaned, lower-cased text
HasPredicate(q, kind) == PredicateMatch(kind, lower(CleanQuery(q))).found

\* C9: a text that matches one of the seven common-error patterns is never
\* accepted, also when it holds a valid predicate.
C9_ErrorBeatsPredicate ==
    (Answered /\ FailsCommon(query)) => ~Accepted

\* a query with a valid comparison that passes checks 1-4 was rejected for
\* a common error
C9_Witness ==
    /\ PassesChecks1to4(query)
    /\ FailsCommon(query)
    /\ HasPredicate(query, "comparison")
    /\ \E i \in 1..Len(ListedErrors) : RejectedWith(ListedErrors[i][2])

\* the operation of an accepted answer, "none" when the dict has no such key
Operation == IF "operation" \in DOMAIN Response THEN Response.operation ELSE "none"

\* C10: the operation of an accepted query is that of the first pattern it
\* matches in the order null_check, not_null_check, in_clause, comparison;
\* a query with an IN list and a comparison is an in_clause.
C10_PredicatePriority ==
    Accepted =>
        /\ HasPredicate(query, "null_check") => Operation = "null_check"
        /\ (~HasPredicate(query, "null_check") /\ HasPredicate(query, "not_null_check"))
              => Operation = "not_null_check"
        /\ (/\ ~HasPredicate(query, "null_check")
            /\ ~HasPredicate(query, "not_null_check")
            /\ HasPredicate(query, "in_clause"))
              => Operation = "in_clause"
        /\ (/\ ~HasPredicate(query, "null_check")
            /\ ~HasPredicate(query, "not_null_check")
            /\ ~HasPredicate(query, "in_clause")
            /\ HasPredicate(query, "comparison"))
              => Operation = "comparison"

\* "select a from t where id in (1,2) and id = 1" was accepted as in_clause
C10_Witness ==
    /\ query = H_plain \o T_in \o T_and
    /\ HasPredicate(query, "in_clause")
    /\ HasPredicate(query, "comparison")
    /\ Accepted
    /\ Operation = "in_clause"

\* the word w stands in s as a whole word, followed by \s+ k1 \s+ k2 ...
WordBeforeKws(s, w, kws) ==
    \E i \in 1..Len(s) :
        /\ LitAt(s, i, w)
        /\ i = 1 \/ ~IsWord(s[i - 1])
        /\ SpKwsAt(s, i + Len(w), kws)

\* C11: an accepted query whose only null test is <column> IS NOT NULL (the
\* word is is nowhere followed by the word null) is classified
\* not_null_check, never null_check, with the column that stands before IS
\* NOT NULL (identifiers compared in lower case), although the IS NULL
\* pattern is tried first.
C11_NotNullExclusive ==
    (/\ Accepted
     /\ HasPredicate(query, "not_null_check")
     /\ ~SearchKwSpKw(lower(CleanQuery(query)), kw_is, kw_null))
        => /\ Operation = "not_null_check"
           /\ WordBeforeKws(lower(CleanQuery(query)), Response.column,
                            <<kw_is, kw_not, kw_null>>)

\* "select a from t where s is not null" was accepted as a not_null_check
\* of column s
C11_Witness ==
    /\ query = H_plain \o T_notnull
    /\ Accepted
    /\ Operation = "not_null_check"
    /\ Response.column = <<"s">>

\* the first position where kw stands in s as a whole word, 0 when nowhere
FirstKeyword(s, kw) ==
    LET hits == {i \in 1..Len(s) :
                    /\ LitAt(s, i, kw)
                    /\ i = 1 \/ ~IsWord(s[i - 1])
                    /\ i + Len(kw) > Len(s) \/ ~IsWord(s[i + Len(kw)])}
    IN  IF hits = {} THEN 0 ELSE Min(hits)

\* the text between the first select and the first from, split at the
\* commas, each token trimmed
ProjectionTokens(q) ==
    LET s == lower(q)
        parts == split(SubSeq(s, FirstKeyword(s, kw_select) + Len(kw_select),
                              FirstKeyword(s, kw_from) - 1), ",")
    IN  [k \in 1..Len(parts) |-> strip(parts[k])]

\* C12: selected_columns of an accepted query is the sequence of the
\* trimmed, comma-separated tokens between the first select and the first
\* from, in source order, and is ["all columns"] only when the only token
\* is *.
C12_SelectedColumns ==
    Accepted =>
        Response.selected_columns =
            IF ProjectionTokens(query) = << <<"*">> >>
            THEN <<all_columns>>
            ELSE ProjectionTokens(query)

\* the word that follows the first from keyword after whitespace, "unknown"
\* when none does
WordAfterFirstFrom(q) ==
    LET s == lower(q)
        i == FirstKeyword(s, kw_from)
        w == SpacesEnd(s, i + Len(kw_from))
    IN  IF i # 0 /\ w > i + Len(kw_from) /\ w <= Len(s) /\ IsWord(s[w])
        THEN SubSeq(s, w, RunEnd(s, w, WordChars))
        ELSE unknown

\* C13: table of an accepted query is the word that immediately follows the
\* first from keyword, and "unknown" when no word follows it, as when a
\* parenthesised subquery does; a later from never gives the table name.
C13_TableAfterFirstFrom ==
    Accepted => Response.table = WordAfterFirstFrom(query)

\* the first position of the run of characters of class C that ends at i
RECURSIVE RunStart(_, _, _)
RunStart(s, i, C) ==
    IF i - 1 >= 1 /\ s[i - 1] \in C THEN RunStart(s, i - 1, C) ELSE i

\* the word that ends where the whitespace before position i begins, <<>>
\* when none does
WordBefore(s, i) ==
    LET e == SpacesStart(s, i - 1) - 1
    IN  IF e >= 1 /\ IsWord(s[e]) THEN SubSeq(s, RunStart(s, e, WordChars), e) ELSE <<>>

\* the positions of ( in <word> in (: the list a predicate <column> IN (...)
\* opens
InListOpens(s) ==
    {i \in 1..Len(s) :
        /\ s[i] = "("
        /\ LET n == SpacesStart(s, i - 1) - Len(kw_in)
           IN  /\ n + Len(kw_in) < i
               /\ LitAt(s, n, kw_in)
               /\ n - 1 >= 1
               /\ IsSpace(s[n - 1])
               /\ WordBefore(s, n) # <<>>}

\* C14: in an accepted in_clause answer, column is the word before IN and
\* values is the sequence of the items of the parenthesised list in source
\* order: the content of each single-quoted literal as written, without
\* its quotes, and each bare token between commas and whitespace.
C14_InListValues ==
    (Accepted /\ Operation = "in_clause") =>
        LET cq == CleanQuery(query)
            s == lower(cq)
            open == Min(InListOpens(s))
            close == Min({j \in (open + 1)..Len(s) : s[j] = ")"})
        IN  /\ Response.column = WordBefore(s, SpacesStart(s, open - 1) - Len(kw_in))
            /\ Response.values = ParsedValues(SubSeq(cq, open + 1, close - 1), 1)

OperatorChars == {"=", "!", "<", ">"}

\* the positions where a comparison operator begins after a word
OperatorStarts(s) ==
    {i \in 1..Len(s) :
        /\ s[i] \in OperatorChars
        /\ i = 1 \/ s[i - 1] \notin OperatorChars
        /\ WordBefore(s, i) # <<>>}

\* the value written at position v: the content of a quoted string up to
\* its closing quote, or a bare word
WrittenValue(s, v) ==
    IF v <= Len(s) /\ s[v] = "'"
    THEN LET closes == {j \in (v + 1)..Len(s) : s[j] = "'"}
         IN  IF closes = {} THEN SubSeq(s, v + 1, Len(s))
             ELSE SubSeq(s, v + 1, Min(closes) - 1)
    ELSE SubSeq(s, v, RunEnd(s, v, WordChars))

\* C15: in an accepted comparison answer, operator is the operator as
\* written (>= and <= whole), one of =, !=, >, <, >=, <=, column is the word
\* before it and value is the bare word or the whole quoted string after
\* it, without its quotes.
C15_ComparisonFields ==
    (Accepted /\ Operation = "comparison") =>
        LET cq == CleanQuery(query)
            s == lower(cq)
            o == Min(OperatorStarts(s))
            e == RunEnd(s, o, OperatorChars)
        IN  /\ Response.operator = SubSeq(s, o, e)
            /\ \E k \in 1..Len(Operators) : Response.operator = Operators[k]
            /\ Response.column = WordBefore(s, o)
            /\ Response.value = WrittenValue(cq, SpacesEnd(cq, e + 1))

Operations == {"null_check", "not_null_check", "in_clause", "comparison", "none"}

\* C16: every accepted answer carries one operation value of null_check,
\* not_null_check, in_clause, comparison, none; a query that passes the
\* rejection checks and matches none of the four predicate patterns is
\* accepted with operation = none, its selected_columns and table filled.
C16_OperationNone ==
    /\ Accepted =>
          /\ "operation" \in DOMAIN Response
          /\ Response.operation \in Operations
    /\ (/\ Answered
        /\ PassesChecks1to4(query)
        /\ ~FailsCommon(query)
        /\ \A kind \in Operations \ {"none"} : ~HasPredicate(query, kind))
          => /\ Accepted
             /\ "operation" \in DOMAIN Response
             /\ Response.operation = "none"
             /\ Response.selected_columns # <<>>
             /\ Response.table # <<>>

\* C17: a text of fewer than 5 characters, the empty text and "sel "
\* included, is rejected with "Query is too short"; a text of 5 or more
\* characters never is: "select" is rejected with "Query must include both
\* SELECT and FROM clauses".
C17_TooShort ==
    Answered =>
        /\ Len(query) < 5 <=> RejectedWith("Query is too short")
        /\ query = H_bare
              => RejectedWith("Query must include both SELECT and FROM clauses")

\* "sel " was rejected as too short
C17_Witness ==
    /\ query = H_short
    /\ RejectedWith("Query is too short")

Savers == {w \in DOMAIN writers : writers[w].pc = "done" /\ "public_datasets" \in DOMAIN writers[w]}

AllDone == \A w \in DOMAIN writers : writers[w].pc = "done"

====
